---- MODULE Spec2Model ----
(***************************************************************************)
(* Model of the "export-translation" IPC handler of sst-export-translation *)
(* (main process): the workbook is read, the header row is resolved, the   *)
(* data rows are accumulated into per-language objects, and one JSON file  *)
(* per language and category is formatted and written.                     *)
(*                                                                         *)
(* Text is a sequence of one-character strings.  A JavaScript value is a   *)
(* record [t, s, n]: t is "undef", "str" or "num".  A JavaScript object is *)
(* the sequence of its own entries in Object.entries order.                *)
(***************************************************************************)
EXTENDS Integers, Sequences, FiniteSets, TLC

VARIABLES workbook, fsOut, folders, files, pc, langData, eulaData,
          createdFiles, pending, result, thrown, writes,
          history, platform, renderer, calls,
          selectedFilePath, selectedDestPath, localStorage, document,
          invokes, alerted

vars == <<workbook, fsOut, folders, files, pc, langData, eulaData,
          createdFiles, pending, result, thrown, writes,
          history, platform, renderer, calls,
          selectedFilePath, selectedDestPath, localStorage, document,
          invokes, alerted>>

\* the state of renderer.js: its two selections, the localStorage of the
\* page, the elements of the page, the electronAPI calls that have not been
\* answered yet, and the last alert shown
pageVars == <<selectedFilePath, selectedDestPath, localStorage, document,
              invokes, alerted>>

\* the calls that have returned before the current one, process.platform,
\* the window with the page loaded in it, the calls the pages have sent,
\* and the state of renderer.js
appVars == <<history, platform, renderer, calls, pageVars>>

(***************************************************************************)
(* Bounds of the model.                                                    *)
(***************************************************************************)
MaxRow == 3
MaxCells == 2
MaxPairs == 2
MaxCalls == 2

(***************************************************************************)
(* Program constants.                                                      *)
(***************************************************************************)
HeaderRowIndex == 1
FirstDataRow == 2
TransFirstCol == 1
TransLastCol == 9
EulaFirstCol == 13
EulaLastCol == 21

TransCols == TransFirstCol..TransLastCol
EulaCols == EulaFirstCol..EulaLastCol

(***************************************************************************)
(* Characters and JavaScript values.                                       *)
(***************************************************************************)
Q == "\""
NL == "\n"
SP == " "
BS == "\\"

Undef == [t |-> "undef", s |-> <<>>, n |-> 0]
Str(s) == [t |-> "str", s |-> s, n |-> 0]
Num(n) == [t |-> "num", s |-> <<>>, n |-> n]

Truthy(x) == \/ x.t = "str" /\ x.s # <<>>
             \/ x.t = "num" /\ x.n # 0

\* a || b
OrElse(a, b) == IF Truthy(a) THEN a ELSE b

Digits == <<"0", "1", "2", "3", "4", "5", "6", "7", "8", "9">>

IsDigit(c) == \E d \in 1..10 : Digits[d] = c

DigitVal(c) == (CHOOSE d \in 1..10 : Digits[d] = c) - 1

RECURSIVE NumToText(_)
NumToText(n) == IF n < 10 THEN <<Digits[n + 1]>>
                ELSE NumToText(n \div 10) \o <<Digits[(n % 10) + 1]>>

\* ToPropertyKey: the text under which a value is used as an object key
PropertyKey(x) == IF x.t = "num" THEN NumToText(x.n) ELSE x.s

Uppers == <<"A", "B", "C", "D", "E", "F", "G", "H", "I", "J", "K", "L", "M",
            "N", "O", "P", "Q", "R", "S", "T", "U", "V", "W", "X", "Y", "Z">>
Lowers == <<"a", "b", "c", "d", "e", "f", "g", "h", "i", "j", "k", "l", "m",
            "n", "o", "p", "q", "r", "s", "t", "u", "v", "w", "x", "y", "z">>

LowerChar(c) == IF \E i \in 1..26 : Uppers[i] = c
                THEN Lowers[CHOOSE i \in 1..26 : Uppers[i] = c]
                ELSE c

\* String.prototype.toLowerCase
toLowerCase(s) == [i \in 1..Len(s) |-> LowerChar(s[i])]

\* String.prototype.substring(0, n)
substring0(s, n) == SubSeq(s, 1, IF Len(s) < n THEN Len(s) ELSE n)

(***************************************************************************)
(* Plain JavaScript objects: own entries in Object.entries order, that is  *)
(* array-index keys in ascending numeric order first, then the other keys  *)
(* in insertion order.                                                     *)
(***************************************************************************)
RECURSIVE TextToNum(_)
TextToNum(s) == IF s = <<>> THEN 0
                ELSE 10 * TextToNum(SubSeq(s, 1, Len(s) - 1)) + DigitVal(s[Len(s)])

\* a canonical numeric text below 2^32 - 1 = 42949 67295 (compared in two
\* halves of five digits)
IsArrayIndex(k) == /\ Len(k) >= 1
                   /\ Len(k) <= 10
                   /\ \A i \in 1..Len(k) : IsDigit(k[i])
                   /\ (Len(k) > 1 => k[1] # "0")
                   /\ (Len(k) = 10 =>
                         \/ TextToNum(SubSeq(k, 1, 5)) < 42949
                         \/ /\ TextToNum(SubSeq(k, 1, 5)) = 42949
                            /\ TextToNum(SubSeq(k, 6, 10)) < 67295)

HasKey(o, k) == \E i \in 1..Len(o) : o[i].k = k

Get(o, k) == o[CHOOSE i \in 1..Len(o) : o[i].k = k].v

\* numeric order of two array-index keys
IndexLess(a, b) ==
    \/ Len(a) < Len(b)
    \/ /\ Len(a) = Len(b)
       /\ \E i \in 1..Len(a) : /\ SubSeq(a, 1, i - 1) = SubSeq(b, 1, i - 1)
                                /\ DigitVal(a[i]) < DigitVal(b[i])

\* number of entries of o that stay in front of a new key k
InsertAt(o, k) == IF IsArrayIndex(k)
                  THEN Cardinality({i \in 1..Len(o) : /\ IsArrayIndex(o[i].k)
                                                      /\ IndexLess(o[i].k, k)})
                  ELSE Len(o)

\* o[k] = v
ObjSet(o, k, v) ==
    IF HasKey(o, k)
    THEN [i \in 1..Len(o) |-> IF o[i].k = k THEN [k |-> k, v |-> v] ELSE o[i]]
    ELSE SubSeq(o, 1, InsertAt(o, k)) \o <<[k |-> k, v |-> v]>>
         \o SubSeq(o, InsertAt(o, k) + 1, Len(o))

(***************************************************************************)
(* rawValue.match of the key-value pattern: a quote, one or more non-quote *)
(* characters, a quote, optional whitespace, a colon, optional whitespace, *)
(* a quote, any characters (greedy), a quote.                              *)
(***************************************************************************)
IsSpace(c) == c \in {SP, NL, "\t", "\r"}

RECURSIVE SkipSpace(_, _)
SkipSpace(s, i) == IF i <= Len(s) /\ IsSpace(s[i]) THEN SkipSpace(s, i + 1) ELSE i

\* index of the first quote at or after i, 0 when there is none
RECURSIVE NextQuote(_, _)
NextQuote(s, i) == IF i > Len(s) THEN 0
                   ELSE IF s[i] = Q THEN i ELSE NextQuote(s, i + 1)

\* index of the last quote of s, 0 when there is none
RECURSIVE LastQuote(_, _)
LastQuote(s, i) == IF i < 1 THEN 0
                   ELSE IF s[i] = Q THEN i ELSE LastQuote(s, i - 1)

NoMatch == [found |-> FALSE, key |-> <<>>, value |-> <<>>]

\* (variant) no whitespace is accepted between the key and the colon
MatchAtNoSpaceBeforeColon(s, i) ==
    IF i > Len(s) \/ s[i] # Q THEN NoMatch
    ELSE LET kq == NextQuote(s, i + 1) IN
         IF kq = 0 \/ kq = i + 1 THEN NoMatch
         ELSE LET colon == kq + 1 IN
              IF colon > Len(s) \/ s[colon] # ":" THEN NoMatch
              ELSE LET vq == SkipSpace(s, colon + 1)
                       lq == LastQuote(s, Len(s)) IN
                   IF vq > Len(s) \/ s[vq] # Q \/ lq <= vq THEN NoMatch
                   ELSE [found |-> TRUE,
                         key |-> SubSeq(s, i + 1, kq - 1),
                         value |-> SubSeq(s, vq + 1, lq - 1)]

\* (variant) the value ends at the first quote after its opening quote
MatchAtLazy(s, i) ==
    IF i > Len(s) \/ s[i] # Q THEN NoMatch
    ELSE LET kq == NextQuote(s, i + 1) IN
         IF kq = 0 \/ kq = i + 1 THEN NoMatch
         ELSE LET colon == SkipSpace(s, kq + 1) IN
              IF colon > Len(s) \/ s[colon] # ":" THEN NoMatch
              ELSE LET vq == SkipSpace(s, colon + 1) IN
                   IF vq > Len(s) \/ s[vq] # Q \/ NextQuote(s, vq + 1) = 0 THEN NoMatch
                   ELSE [found |-> TRUE,
                         key |-> SubSeq(s, i + 1, kq - 1),
                         value |-> SubSeq(s, vq + 1, NextQuote(s, vq + 1) - 1)]

\* the match that starts at index i, NoMatch when the pattern does not match there
MatchAt(s, i) ==
    IF i > Len(s) \/ s[i] # Q THEN NoMatch
    ELSE LET kq == NextQuote(s, i + 1) IN
         IF kq = 0 \/ kq = i + 1 THEN NoMatch
         ELSE LET colon == SkipSpace(s, kq + 1) IN
              IF colon > Len(s) \/ s[colon] # ":" THEN NoMatch
              ELSE LET vq == SkipSpace(s, colon + 1)
                       lq == LastQuote(s, Len(s)) IN
                   IF vq > Len(s) \/ s[vq] # Q \/ lq <= vq THEN NoMatch
                   ELSE [found |-> TRUE,
                         key |-> SubSeq(s, i + 1, kq - 1),
                         value |-> SubSeq(s, vq + 1, lq - 1)]

RECURSIVE MatchFrom(_, _)
MatchFrom(s, i) == IF i > Len(s) THEN NoMatch
                   ELSE IF MatchAt(s, i).found THEN MatchAt(s, i)
                   ELSE MatchFrom(s, i + 1)

match(s) == MatchFrom(s, 1)

(***************************************************************************)
(* The folder name of a language.                                          *)
(***************************************************************************)
Italian == <<"i", "t", "a", "l", "i", "a", "n">>

\* (variant) the Italian exception is missing
folderNameNoException(lang) == substring0(toLowerCase(lang), 2)

\* folderName of the translation.json loop
folderName(lang) == IF toLowerCase(lang) = Italian
                    THEN <<"i", "t", "a">>
                    ELSE substring0(toLowerCase(lang), 2)

\* (variant) the Italian exception is compared without lower-casing
eulaFolderNameCaseSensitive(lang) == IF lang = Italian
                                     THEN <<"i", "t", "a">>
                                     ELSE substring0(toLowerCase(lang), 2)

\* folderName of the eula.json loop
eulaFolderName(lang) == IF toLowerCase(lang) = Italian
                        THEN <<"i", "t", "a">>
                        ELSE substring0(toLowerCase(lang), 2)

(***************************************************************************)
(* The JSON text of one language object, and prettier.format with the json *)
(* parser: the text is parsed as one object whose members are string       *)
(* literals and printed again one member per line; text that is not such   *)
(* an object is a syntax error.                                            *)
(***************************************************************************)
memberLine(e) == <<SP, SP, Q>> \o e.k \o <<Q, ":", SP, Q>> \o e.v \o <<Q>>

RECURSIVE joinLines(_, _)
joinLines(dict, i) == IF i > Len(dict) THEN <<>>
                      ELSE IF i = Len(dict) THEN memberLine(dict[i])
                      ELSE memberLine(dict[i]) \o <<",", NL>> \o joinLines(dict, i + 1)

jsonString(dict) == <<"{", NL>> \o joinLines(dict, 1) \o <<NL, "}">>

\* index of the quote that closes the string literal whose body starts at j,
\* 0 when the literal is not terminated on its line
RECURSIVE StringEnd(_, _)
StringEnd(s, j) == IF j > Len(s) THEN 0
                   ELSE IF s[j] = Q THEN j
                   ELSE IF s[j] \in {NL, "\r"} THEN 0
                   ELSE IF s[j] = BS THEN (IF j + 1 > Len(s) THEN 0 ELSE StringEnd(s, j + 2))
                   ELSE StringEnd(s, j + 1)

SyntaxError == [ok |-> FALSE, members |-> <<>>]

\* the members from index i on, each as the raw text of its two literals
RECURSIVE ParseMembers(_, _, _)
ParseMembers(s, i, acc) ==
    IF i > Len(s) \/ s[i] # Q THEN SyntaxError
    ELSE LET kq == StringEnd(s, i + 1) IN
         IF kq = 0 THEN SyntaxError
         ELSE LET colon == SkipSpace(s, kq + 1) IN
              IF colon > Len(s) \/ s[colon] # ":" THEN SyntaxError
              ELSE LET vs == SkipSpace(s, colon + 1) IN
                   IF vs > Len(s) \/ s[vs] # Q THEN SyntaxError
                   ELSE LET vq == StringEnd(s, vs + 1) IN
                        IF vq = 0 THEN SyntaxError
                        ELSE LET next == SkipSpace(s, vq + 1)
                                 m == [k |-> SubSeq(s, i, kq), v |-> SubSeq(s, vs, vq)] IN
                             IF next > Len(s) THEN SyntaxError
                             ELSE IF s[next] = "," THEN ParseMembers(s, SkipSpace(s, next + 1), Append(acc, m))
                             ELSE IF s[next] = "}" /\ SkipSpace(s, next + 1) > Len(s)
                                  THEN [ok |-> TRUE, members |-> Append(acc, m)]
                             ELSE SyntaxError

ParseObject(s) ==
    LET open == SkipSpace(s, 1) IN
    IF open > Len(s) \/ s[open] # "{" THEN SyntaxError
    ELSE LET first == SkipSpace(s, open + 1) IN
         IF first <= Len(s) /\ s[first] = "}"
         THEN (IF SkipSpace(s, first + 1) > Len(s) THEN [ok |-> TRUE, members |-> <<>>] ELSE SyntaxError)
         ELSE ParseMembers(s, first, <<>>)

RECURSIVE printMembers(_, _)
printMembers(ms, i) ==
    IF i > Len(ms) THEN <<>>
    ELSE <<SP, SP>> \o ms[i].k \o <<":", SP>> \o ms[i].v
         \o (IF i = Len(ms) THEN <<NL>> ELSE <<",", NL>> \o printMembers(ms, i + 1))

\* prettier.format(text, {parser: "json"}): [ok, text]
prettierFormat(s) ==
    LET p == ParseObject(s) IN
    IF ~p.ok THEN [ok |-> FALSE, text |-> <<>>]
    ELSE IF p.members = <<>> THEN [ok |-> TRUE, text |-> <<"{", "}", NL>>]
    ELSE [ok |-> TRUE, text |-> <<"{", NL>> \o printMembers(p.members, 1) \o <<"}", NL>>]

(***************************************************************************)
(* The workbook: whether the file can be read, whether it holds the        *)
(* designated sheet, whether the sheet declares a range, and the cells of  *)
(* the sheet, a function from <<row, column>> to [w, v].                   *)
(***************************************************************************)
NoCell == [present |-> FALSE, w |-> Undef, v |-> Undef]
Cell(w, v) == [present |-> TRUE, w |-> w, v |-> v]

\* sheet[XLSX.utils.encode_cell({r, c})]
sheetCell(cells, r, c) == IF <<r, c>> \in DOMAIN cells THEN cells[<<r, c>>] ELSE NoCell

\* cell.w || cell.v
cellText(cell) == OrElse(cell.w, cell.v)

RECURSIVE SetMax(_)
SetMax(S) == IF S = {} THEN 0
             ELSE LET x == CHOOSE y \in S : TRUE
                      m == SetMax(S \ {x}) IN IF x > m THEN x ELSE m

\* XLSX.utils.decode_range(sheet["!ref"]).e.r
rangeLastRow(cells) == SetMax({p[1] : p \in DOMAIN cells})

headerRow(cells) ==
    [col \in TransFirstCol..EulaLastCol |->
        IF sheetCell(cells, HeaderRowIndex, col).present
        THEN cellText(sheetCell(cells, HeaderRowIndex, col))
        ELSE Undef]

\* for (col = first..last) if (langName) data[langName] = {}
RECURSIVE initLangs(_, _, _, _)
initLangs(hdr, col, last, data) ==
    IF col > last THEN data
    ELSE initLangs(hdr, col + 1, last,
                   IF Truthy(hdr[col]) THEN ObjSet(data, PropertyKey(hdr[col]), <<>>) ELSE data)

\* (variant) a key that is already present keeps its first value
accumCellFirstWins(cells, hdr, row, col, data) ==
    LET langName == hdr[col]
        cell == sheetCell(cells, row, col)
        rawValue == cellText(cell)
        m == match(rawValue.s)
    IN  IF ~Truthy(langName) THEN data
        ELSE IF ~cell.present THEN data
        ELSE IF ~Truthy(rawValue) \/ rawValue.t # "str" THEN data
        ELSE IF ~m.found THEN data
        ELSE IF HasKey(Get(data, PropertyKey(langName)), m.key) THEN data
        ELSE ObjSet(data, PropertyKey(langName),
                    ObjSet(Get(data, PropertyKey(langName)), m.key, m.value))

\* (variant) text that does not match is stored as a key with an empty value
accumCellKeepsFreeText(cells, hdr, row, col, data) ==
    LET langName == hdr[col]
        cell == sheetCell(cells, row, col)
        rawValue == cellText(cell)
        m == match(rawValue.s)
    IN  IF ~Truthy(langName) THEN data
        ELSE IF ~cell.present THEN data
        ELSE IF ~Truthy(rawValue) \/ rawValue.t # "str" THEN data
        ELSE IF ~m.found
        THEN ObjSet(data, PropertyKey(langName),
                    ObjSet(Get(data, PropertyKey(langName)), rawValue.s, <<>>))
        ELSE ObjSet(data, PropertyKey(langName),
                    ObjSet(Get(data, PropertyKey(langName)), m.key, m.value))

\* the body of the column loop for one cell
accumCell(cells, hdr, row, col, data) ==
    LET langName == hdr[col]
        cell == sheetCell(cells, row, col)
        rawValue == cellText(cell)
        m == match(rawValue.s)
    IN  IF ~Truthy(langName) THEN data
        ELSE IF ~cell.present THEN data
        ELSE IF ~Truthy(rawValue) \/ rawValue.t # "str" THEN data
        ELSE IF ~m.found THEN data
        ELSE ObjSet(data, PropertyKey(langName),
                    ObjSet(Get(data, PropertyKey(langName)), m.key, m.value))

\* (variant) the columns of a row are applied from the last to the first
RECURSIVE accumColsDescending(_, _, _, _, _, _)
accumColsDescending(cells, hdr, row, col, last, data) ==
    IF col > last THEN data
    ELSE accumCell(cells, hdr, row, col,
                   accumColsDescending(cells, hdr, row, col + 1, last, data))

RECURSIVE accumCols(_, _, _, _, _, _)
accumCols(cells, hdr, row, col, last, data) ==
    IF col > last THEN data
    ELSE accumCols(cells, hdr, row, col + 1, last, accumCell(cells, hdr, row, col, data))

\* for (row = 2; row <= range.e.r; row++): columns 1-9 into langData, then
\* columns 13-21 into eulaData; d is [lang, eula]
RECURSIVE accumRows(_, _, _, _, _)
accumRows(cells, hdr, row, lastRow, d) ==
    IF row > lastRow THEN d
    ELSE accumRows(cells, hdr, row + 1, lastRow,
                   [lang |-> accumCols(cells, hdr, row, TransFirstCol, TransLastCol, d.lang),
                    eula |-> accumCols(cells, hdr, row, EulaFirstCol, EulaLastCol, d.eula)])

\* (variant) the row loop starts at the header row
accumulateFromHeaderRow(cells) ==
    accumRows(cells, headerRow(cells), HeaderRowIndex, rangeLastRow(cells),
              [lang |-> initLangs(headerRow(cells), TransFirstCol, TransLastCol, <<>>),
               eula |-> initLangs(headerRow(cells), EulaFirstCol, EulaLastCol, <<>>)])

\* the two sets of language objects after the row loop
accumulate(cells) ==
    accumRows(cells, headerRow(cells), FirstDataRow, rangeLastRow(cells),
              [lang |-> initLangs(headerRow(cells), TransFirstCol, TransLastCol, <<>>),
               eula |-> initLangs(headerRow(cells), EulaFirstCol, EulaLastCol, <<>>)])

(***************************************************************************)
(* Results and errors of the handler.                                      *)
(***************************************************************************)
NoResult == [settled |-> FALSE]

\* (variant) the failure result carries a fixed message
catchGeneric(error) == [success |-> FALSE, message |-> "Export failed"]

\* catch (error) { return {success: false, message: error.message} }
catch(error) == [success |-> FALSE, message |-> error]

\* (variant) filesCreated counts the distinct paths
successResultDistinct(created) ==
    [success |-> TRUE,
     message |-> "Export completed successfully!",
     filesCreated |-> Cardinality({created[i] : i \in 1..Len(created)}),
     files |-> created]

successResult(created) == [success |-> TRUE,
                           message |-> "Export completed successfully!",
                           filesCreated |-> Len(created),
                           files |-> created]

ErrRead == "ENOENT: no such file or directory, open"
ErrSheet == "Sheet \"json_tranlsation\" not found"
ErrRange == "Cannot read properties of undefined"
ErrMkdirParent == "ENOENT: no such file or directory, mkdir"
ErrConfig == "Invalid prettier configuration"
ErrFormat == "SyntaxError"
ErrWrite == "EACCES: permission denied, open"

OutputDir == "out"

\* (variant) every file is named translation.json
filePathOneName(folder, name) == <<OutputDir, folder, "translation.json">>

\* path.join(path.join(outputDir, folderName), name)
filePath(folder, name) == <<OutputDir, folder, name>>

\* a throw inside the try block
Throw(error) == /\ thrown' = Append(thrown, error)
                /\ result' = catch(error)
                /\ pc' = "done"
                /\ pending' = <<>>

(***************************************************************************)
(* Inputs of the model: header cells, data cells, and the sheets built     *)
(* from them.                                                              *)
(***************************************************************************)
English == <<"E", "n", "g", "l", "i", "s", "h">>
Slovak == <<"S", "l", "o", "v", "a", "k">>
Slovenian == <<"S", "l", "o", "v", "e", "n", "i", "a", "n">>
ItalianName == <<"I", "t", "a", "l", "i", "a", "n">>
ItalianUpper == <<"I", "T", "A", "L", "I", "A", "N">>

HeaderCells == {NoCell, Cell(Undef, Str(English)), Cell(Undef, Str(Slovak)),
                Cell(Undef, Str(Slovenian)), Cell(Undef, Str(ItalianName)),
                Cell(Undef, Str(ItalianUpper)), Cell(Undef, Num(42))}

\* "k"<ws1>:<ws2>"v"
KV(k, ws1, ws2, v) == <<Q>> \o k \o <<Q>> \o ws1 \o <<":">> \o ws2 \o <<Q>> \o v \o <<Q>>

TextAX == KV(<<"a">>, <<>>, <<>>, <<"x">>)
TextAY == KV(<<"a">>, <<SP>>, <<SP>>, <<"y">>)
TextB == KV(<<"b">>, <<>>, <<NL, SP>>, <<SP, "x", BS, "n", SP>>)
Text2 == KV(<<"2">>, <<>>, <<SP>>, <<"z">>)
TextQuote == KV(<<"a">>, <<>>, <<SP>>, <<"x", Q, "y">>)
TextNote == <<"n", "o", "t", "e">>

\* the last two are a numeric cell and a numeric cell with a display string
DataCells == {Cell(Undef, Str(TextAY)),
              Cell(Undef, Str(TextB)), Cell(Undef, Str(Text2)),
              Cell(Undef, Str(TextQuote)), Cell(Undef, Str(TextNote)),
              Cell(Undef, Num(7)), Cell(Str(TextAX), Num(5))}

HeaderCols == {TransFirstCol, TransLastCol, EulaFirstCol, EulaLastCol}
DataColsA == {TransFirstCol, EulaFirstCol}
DataColsB == {TransFirstCol, TransLastCol}

\* cells with d's entries, and c at position p when c is a cell
WithCell(d, p, c) ==
    IF c.present
    THEN [q \in DOMAIN d \cup {p} |-> IF q = p THEN c ELSE d[q]]
    ELSE [q \in DOMAIN d \ {p} |-> d[q]]

EmptyCells == [q \in {} |-> NoCell]

\* every choice of header cells for the columns of cols
RECURSIVE HeaderRows(_)
HeaderRows(cols) ==
    IF cols = {} THEN {EmptyCells}
    ELSE LET col == CHOOSE c \in cols : TRUE IN
         {WithCell(d, <<HeaderRowIndex, col>>, h) : d \in HeaderRows(cols \ {col}), h \in HeaderCells}

\* base with at most n data cells added in the columns of cols
RECURSIVE WithData(_, _, _)
WithData(base, cols, n) ==
    IF n = 0 THEN {base}
    ELSE LET fewer == WithData(base, cols, n - 1) IN
         fewer \cup {WithCell(d, p, c) : d \in fewer,
                                         p \in (FirstDataRow..MaxRow) \X cols, c \in DataCells}

HeaderRowA == WithCell(WithCell(WithCell(EmptyCells,
                  <<HeaderRowIndex, TransFirstCol>>, Cell(Undef, Str(English))),
                  <<HeaderRowIndex, TransLastCol>>, Cell(Undef, Str(ItalianName))),
                  <<HeaderRowIndex, EulaFirstCol>>, Cell(Undef, Str(English)))

HeaderRowB == WithCell(WithCell(WithCell(EmptyCells,
                  <<HeaderRowIndex, TransFirstCol>>, Cell(Undef, Str(English))),
                  <<HeaderRowIndex, TransLastCol>>, Cell(Undef, Str(English))),
                  <<HeaderRowIndex, EulaFirstCol>>, Cell(Undef, Str(Slovak)))

ReadableWorkbook(c) == [readable |-> TRUE, hasSheet |-> TRUE, hasRef |-> TRUE, cells |-> c]

\* workbooks that vary the header row, and workbooks that cannot be exported
HeaderWorkbooks ==
    {ReadableWorkbook(c) : c \in HeaderRows(HeaderCols)}
    \cup {[readable |-> FALSE, hasSheet |-> FALSE, hasRef |-> FALSE, cells |-> EmptyCells],
          [readable |-> TRUE, hasSheet |-> FALSE, hasRef |-> FALSE, cells |-> EmptyCells],
          [readable |-> TRUE, hasSheet |-> TRUE, hasRef |-> FALSE, cells |-> EmptyCells]}

\* workbooks that vary the data cells under two header rows
DataWorkbooks ==
    {ReadableWorkbook(c) : c \in WithData(HeaderRowA, DataColsA, MaxCells)
                                 \cup WithData(HeaderRowB, DataColsB, MaxCells)}

OldText == <<"{", "}", NL>>
NoFiles == [q \in {} |-> <<>>]

\* the output directory before the call: its state, its folders, its files
DiskEmpty == [out |-> "dir", folders |-> {}, files |-> NoFiles]
DiskPopulated == [out |-> "dir", folders |-> {<<"e", "n">>},
                  files |-> [q \in {filePath(<<"e", "n">>, "translation.json")} |-> OldText]]
DiskAbsent == [out |-> "absent", folders |-> {}, files |-> NoFiles]
DiskNoParent == [out |-> "noparent", folders |-> {}, files |-> NoFiles]

\* the window before app.whenReady: no page, the export button of a page
\* enabled, the template select at its first option
NoRenderer == [window |-> "none", id |-> 0, disabled |-> FALSE, template |-> "FD"]

\* null
Null == [t |-> "null", s |-> <<>>, n |-> 0]

\* the text of the export button in index.html, and the text the submit
\* handler shows during the call
ExportLabel == "Export to locales"
ExportingLabel == "Exporting..."

\* the options of the template select
TemplateOptions == {"FD", "ACE", "AGPD"}

\* the page as index.html is parsed and renderer.js has run its top level,
\* before DOMContentLoaded: both fields empty, the first template selected,
\* the export button enabled
LoadingDocument ==
    [readyState |-> "loading", inputFileField |-> Str(<<>>),
     destinationField |-> Str(<<>>), templateSelect |-> "FD",
     exportBtn |-> [disabled |-> FALSE, textContent |-> ExportLabel]]

\* no exportTranslation call sent by the page
NoInvoke == [state |-> "none", args |-> <<>>, originalText |-> ""]

\* no dialog open for the page, no dialog answered yet (answered is the
\* last value a dialog call of the page has resolved with), and no export
\* call sent by it
NoInvokes == [selectFile |-> 0, selectDestination |-> 0, answered |-> Undef,
              exportTranslation |-> NoInvoke]

\* renderer.js before it is loaded into a window
PageIdle == /\ selectedFilePath = Null
            /\ selectedDestPath = Null
            /\ localStorage = Null
            /\ document = LoadingDocument
            /\ invokes = NoInvokes
            /\ alerted = ""

\* nothing has been called before, no window, no call sent
AppIdle == /\ history = <<>>
           /\ platform = "darwin"
           /\ renderer = NoRenderer
           /\ calls = <<>>
           /\ PageIdle

Inputs ==
    {[wb |-> w, disk |-> d] : w \in HeaderWorkbooks,
                              d \in {DiskEmpty, DiskPopulated, DiskAbsent, DiskNoParent}}
    \cup {[wb |-> w, disk |-> DiskAbsent] : w \in DataWorkbooks}

Init == /\ \E in \in Inputs : /\ workbook = in.wb
                              /\ fsOut = in.disk.out
                              /\ folders = in.disk.folders
                              /\ files = in.disk.files
        /\ pc = "idle"
        /\ langData = <<>>
        /\ eulaData = <<>>
        /\ createdFiles = <<>>
        /\ pending = <<>>
        /\ result = NoResult
        /\ thrown = <<>>
        /\ writes = <<>>
        /\ AppIdle

(***************************************************************************)
(* The handler.  Each action is one synchronous run of the handler, from   *)
(* an await (or the call) to the next await (or the return).               *)
(***************************************************************************)
\* the iterations of the translation.json loop: Object.entries(langData)
translationJobs(lang) ==
    [i \in 1..Len(lang) |->
        [name |-> "translation.json", lang |-> lang[i].k, dict |-> lang[i].v,
         folder |-> folderName(lang[i].k)]]

\* the iterations of the eula.json loop: Object.entries(eulaData)
eulaJobs(eula) ==
    [i \in 1..Len(eula) |->
        [name |-> "eula.json", lang |-> eula[i].k, dict |-> eula[i].v,
         folder |-> eulaFolderName(eula[i].k)]]

NonEmptyJob(j) == j.dict # <<>>

\* (variant) a language whose object is empty is skipped
jobsSkipEmpty(lang, eula) == SelectSeq(translationJobs(lang) \o eulaJobs(eula), NonEmptyJob)

\* the iterations of the two write loops, in order
jobs(lang, eula) == translationJobs(lang) \o eulaJobs(eula)

\* iteration i of the write loops up to its await of prettier.format, or the
\* return when the loops are over
beginWrite(i) ==
    LET js == jobs(langData, eulaData) IN
    IF i > Len(js)
    THEN /\ result' = successResult(createdFiles')
         /\ pc' = "done"
         /\ pending' = <<>>
         /\ UNCHANGED <<folders, thrown>>
    ELSE /\ folders' = folders \cup {js[i].folder}
         /\ pending' = [i |-> i,
                        filePath |-> filePath(js[i].folder, js[i].name),
                        jsonString |-> jsonString(js[i].dict)]
         /\ pc' = "format"
         /\ UNCHANGED <<result, thrown>>

\* (variant) the output directory is created before the sheet is looked up
ExportMkdirFirst ==
    /\ pc = "idle"
    /\ UNCHANGED <<workbook, folders, files, createdFiles, writes>>
    /\ UNCHANGED appVars
    /\ IF fsOut = "noparent"
       THEN Throw(ErrMkdirParent) /\ UNCHANGED <<fsOut, langData, eulaData>>
       ELSE /\ fsOut' = "dir"
            /\ IF ~workbook.readable
               THEN Throw(ErrRead) /\ UNCHANGED <<langData, eulaData>>
               ELSE IF ~workbook.hasSheet
               THEN Throw(ErrSheet) /\ UNCHANGED <<langData, eulaData>>
               ELSE IF ~workbook.hasRef
               THEN Throw(ErrRange) /\ UNCHANGED <<langData, eulaData>>
               ELSE /\ LET d == accumulate(workbook.cells) IN
                         langData' = d.lang /\ eulaData' = d.eula
                    /\ pc' = "resolveConfig"
                    /\ UNCHANGED <<pending, result, thrown>>

\* from the call to the await of prettier.resolveConfig; fs.mkdirSync throws
\* when the parent of the output directory is missing
Export ==
    /\ pc = "idle"
    /\ UNCHANGED <<workbook, folders, files, createdFiles, writes>>
    /\ UNCHANGED appVars
    /\ IF ~workbook.readable
       THEN Throw(ErrRead) /\ UNCHANGED <<fsOut, langData, eulaData>>
       ELSE IF ~workbook.hasSheet
       THEN Throw(ErrSheet) /\ UNCHANGED <<fsOut, langData, eulaData>>
       ELSE IF ~workbook.hasRef
       THEN Throw(ErrRange) /\ UNCHANGED <<fsOut, langData, eulaData>>
       ELSE /\ LET d == accumulate(workbook.cells) IN
                 langData' = d.lang /\ eulaData' = d.eula
            /\ IF fsOut = "noparent"
               THEN Throw(ErrMkdirParent) /\ UNCHANGED fsOut
               ELSE /\ fsOut' = "dir"
                    /\ pc' = "resolveConfig"
                    /\ UNCHANGED <<pending, result, thrown>>

\* prettier.resolveConfig settles; the first iteration starts
ConfigResolved ==
    /\ pc = "resolveConfig"
    /\ UNCHANGED <<workbook, fsOut, files, langData, eulaData, writes>>
    /\ UNCHANGED appVars
    /\ \E cfgOk \in BOOLEAN :
         IF ~cfgOk
         THEN Throw(ErrConfig) /\ UNCHANGED <<folders, createdFiles>>
         ELSE /\ createdFiles' = <<>>
              /\ beginWrite(1)

\* (variant) a failure removes the files the call has written so far
FormatResolvedRollback ==
    /\ pc = "format"
    /\ UNCHANGED <<workbook, fsOut, langData, eulaData>>
    /\ UNCHANGED appVars
    /\ LET formatted == prettierFormat(pending.jsonString)
           kept == [q \in {r \in DOMAIN files : \A i \in 1..Len(createdFiles) : createdFiles[i] # r}
                       |-> files[q]] IN
       IF ~formatted.ok
       THEN Throw(ErrFormat) /\ files' = kept /\ UNCHANGED <<folders, createdFiles, writes>>
       ELSE \E wrOk \in BOOLEAN :
              IF ~wrOk
              THEN Throw(ErrWrite) /\ files' = kept /\ UNCHANGED <<folders, createdFiles, writes>>
              ELSE /\ files' = (pending.filePath :> formatted.text) @@ files
                   /\ writes' = Append(writes, [path |-> pending.filePath,
                                                 text |-> formatted.text])
                   /\ createdFiles' = Append(createdFiles, pending.filePath)
                   /\ beginWrite(pending.i + 1)

\* (variant) the text is appended to a file that exists
FormatResolvedAppend ==
    /\ pc = "format"
    /\ UNCHANGED <<workbook, fsOut, langData, eulaData>>
    /\ UNCHANGED appVars
    /\ LET formatted == prettierFormat(pending.jsonString) IN
       IF ~formatted.ok
       THEN Throw(ErrFormat) /\ UNCHANGED <<folders, files, createdFiles, writes>>
       ELSE \E wrOk \in BOOLEAN :
              IF ~wrOk
              THEN Throw(ErrWrite) /\ UNCHANGED <<folders, files, createdFiles, writes>>
              ELSE /\ files' = (pending.filePath :>
                                   (IF pending.filePath \in DOMAIN files
                                    THEN files[pending.filePath] \o formatted.text
                                    ELSE formatted.text)) @@ files
                   /\ writes' = Append(writes, [path |-> pending.filePath,
                                                 text |-> formatted.text])
                   /\ createdFiles' = Append(createdFiles, pending.filePath)
                   /\ beginWrite(pending.i + 1)

\* (variant) a path is put into createdFiles once
FormatResolvedPushOnce ==
    /\ pc = "format"
    /\ UNCHANGED <<workbook, fsOut, langData, eulaData>>
    /\ UNCHANGED appVars
    /\ LET formatted == prettierFormat(pending.jsonString) IN
       IF ~formatted.ok
       THEN Throw(ErrFormat) /\ UNCHANGED <<folders, files, createdFiles, writes>>
       ELSE \E wrOk \in BOOLEAN :
              IF ~wrOk
              THEN Throw(ErrWrite) /\ UNCHANGED <<folders, files, createdFiles, writes>>
              ELSE /\ files' = (pending.filePath :> formatted.text) @@ files
                   /\ writes' = Append(writes, [path |-> pending.filePath,
                                                 text |-> formatted.text])
                   /\ createdFiles' =
                         IF \E i \in 1..Len(createdFiles) : createdFiles[i] = pending.filePath
                         THEN createdFiles
                         ELSE Append(createdFiles, pending.filePath)
                   /\ beginWrite(pending.i + 1)

\* prettier.format settles; the file is written (wrOk: fs.writeFileSync does
\* not throw) and the next iteration starts
FormatResolved ==
    /\ pc = "format"
    /\ UNCHANGED <<workbook, fsOut, langData, eulaData>>
    /\ UNCHANGED appVars
    /\ LET formatted == prettierFormat(pending.jsonString) IN
       IF ~formatted.ok
       THEN Throw(ErrFormat) /\ UNCHANGED <<folders, files, createdFiles, writes>>
       ELSE \E wrOk \in BOOLEAN :
              IF ~wrOk
              THEN Throw(ErrWrite) /\ UNCHANGED <<folders, files, createdFiles, writes>>
              ELSE /\ files' = (pending.filePath :> formatted.text) @@ files
                   /\ writes' = Append(writes, [path |-> pending.filePath,
                                                 text |-> formatted.text])
                   /\ createdFiles' = Append(createdFiles, pending.filePath)
                   /\ beginWrite(pending.i + 1)

Next == Export \/ ConfigResolved \/ FormatResolved

Spec == Init /\ [][Next]_vars

(***************************************************************************)
(* The handler on sheets with one language and one data cell, B3, whose    *)
(* text is a run of one or more quoted pairs, or one pair with a value     *)
(* that holds a quote, a line break or a backslash sequence.               *)
(***************************************************************************)
PairKeys == {<<"a">>, <<"b">>}
PairValues == {<<>>, <<"x">>, <<"y">>}
PairSeps == {<<",", SP>>, <<NL>>, <<>>}

\* the texts of n pairs, each with its first pair's key and value
RECURSIVE PairTexts(_)
PairTexts(n) ==
    IF n = 1
    THEN {[text |-> KV(k, <<>>, <<SP>>, v), n |-> 1, key |-> k, value |-> v] :
             k \in PairKeys, v \in PairValues}
    ELSE {[text |-> f.text \o s \o KV(k, <<>>, <<SP>>, v), n |-> n,
           key |-> f.key, value |-> f.value] :
             f \in PairTexts(n - 1), s \in PairSeps, k \in PairKeys, v \in PairValues}

AllPairTexts == UNION {PairTexts(n) : n \in 1..MaxPairs}

ValueQuote == <<"x", Q, "y">>
ValueNewline == <<"x", NL, "y">>
ValueEscapedQuote == <<"x", BS, Q, "y">>
ValueEscapedNewline == <<"x", BS, "n", "y">>
ValueTab == <<"x", "\t", "y">>

SpecialValues == {ValueQuote, ValueNewline, ValueEscapedQuote, ValueEscapedNewline, ValueTab}

CellTexts == {f.text : f \in AllPairTexts}
             \cup {KV(<<"a">>, <<>>, <<SP>>, v) : v \in SpecialValues}

HeaderRowOne == WithCell(EmptyCells, <<HeaderRowIndex, TransFirstCol>>,
                         Cell(Undef, Str(English)))

CellWorkbooks ==
    {ReadableWorkbook(WithCell(HeaderRowOne, <<FirstDataRow, TransFirstCol>>,
                               Cell(Undef, Str(t)))) : t \in CellTexts}

InitCells == /\ \E w \in CellWorkbooks : workbook = w
             /\ fsOut = DiskEmpty.out
             /\ folders = DiskEmpty.folders
             /\ files = DiskEmpty.files
             /\ pc = "idle"
             /\ langData = <<>>
             /\ eulaData = <<>>
             /\ createdFiles = <<>>
             /\ pending = <<>>
             /\ result = NoResult
             /\ thrown = <<>>
             /\ writes = <<>>
             /\ AppIdle

SpecCells == InitCells /\ [][Next]_vars

(***************************************************************************)
(* The handler on sheets with two parsed cells, B3 and N3, and up to       *)
(* MaxCells further cells in rows 3 and 4 that carry no pair: an empty     *)
(* string, a number, free text, a quoted word with no colon.               *)
(***************************************************************************)
TextWord == <<Q, "a", Q>>

SkipCells == {Cell(Undef, Str(<<>>)), Cell(Undef, Num(7)),
              Cell(Undef, Str(TextNote)), Cell(Undef, Str(TextWord))}

SkipRows == FirstDataRow..(FirstDataRow + 1)

RECURSIVE WithSkips(_, _)
WithSkips(base, n) ==
    IF n = 0 THEN {base}
    ELSE LET fewer == WithSkips(base, n - 1) IN
         fewer \cup {WithCell(d, p, c) : d \in fewer,
                                         p \in SkipRows \X DataColsA, c \in SkipCells}

ParsedBase == WithCell(WithCell(HeaderRowA,
                  <<FirstDataRow, TransFirstCol>>, Cell(Undef, Str(TextAY))),
                  <<FirstDataRow, EulaFirstCol>>, Cell(Undef, Str(TextB)))

SkipWorkbooks == {ReadableWorkbook(c) : c \in WithSkips(ParsedBase, MaxCells)}

InitSkips == /\ \E w \in SkipWorkbooks : workbook = w
             /\ fsOut = DiskEmpty.out
             /\ folders = DiskEmpty.folders
             /\ files = DiskEmpty.files
             /\ pc = "idle"
             /\ langData = <<>>
             /\ eulaData = <<>>
             /\ createdFiles = <<>>
             /\ pending = <<>>
             /\ result = NoResult
             /\ thrown = <<>>
             /\ writes = <<>>
             /\ AppIdle

SpecSkips == InitSkips /\ [][Next]_vars

(***************************************************************************)
(* The handler called a second time with the same input file and the same  *)
(* output directory, which is empty before the first call.                 *)
(***************************************************************************)
RerunWorkbooks == HeaderWorkbooks \cup CellWorkbooks \cup SkipWorkbooks

InitRerun == /\ \E w \in RerunWorkbooks : workbook = w
             /\ fsOut = DiskEmpty.out
             /\ folders = DiskEmpty.folders
             /\ files = DiskEmpty.files
             /\ pc = "idle"
             /\ langData = <<>>
             /\ eulaData = <<>>
             /\ createdFiles = <<>>
             /\ pending = <<>>
             /\ result = NoResult
             /\ thrown = <<>>
             /\ writes = <<>>
             /\ AppIdle

\* the first call has returned; the handler is invoked again
Rerun ==
    /\ pc = "done"
    /\ history = <<>>
    /\ history' = <<[result |-> result, writes |-> writes, files |-> files]>>
    /\ pc' = "idle"
    /\ langData' = <<>>
    /\ eulaData' = <<>>
    /\ createdFiles' = <<>>
    /\ pending' = <<>>
    /\ result' = NoResult
    /\ thrown' = <<>>
    /\ writes' = <<>>
    /\ UNCHANGED <<workbook, fsOut, folders, files, platform, renderer, calls, pageVars>>

NextRerun == Export \/ ConfigResolved \/ FormatResolved \/ Rerun

SpecRerun == InitRerun /\ [][NextRerun]_vars

(***************************************************************************)
(* The application: the window and the page loaded in it (renderer.js),    *)
(* the export-translation requests the pages send through preload.js, and  *)
(* the handler invocations of the main process, each with its own locals,  *)
(* all on one disk.  An invocation runs from one await to the next; the    *)
(* event loop may run any other step in between.  A write is logged with   *)
(* the number of the invocation that made it.                              *)
(***************************************************************************)
Templates == {"FD", "ACE", "AGPD", "XX"}

\* the page of window number id after index.html is loaded and the
\* template t is selected
Page(id, t) == [window |-> "open", id |-> id, disabled |-> FALSE, template |-> t]

\* ipcRenderer.invoke("export-translation", inputFile, outputDir): the
\* template argument of the page is not forwarded
exportTranslation(inputFile, outputDir, template) == <<inputFile, outputDir>>

\* an invocation of the handler that has not run yet; from and template
\* record the page that sent it and the template that page passed
NewCall(from, template, args) ==
    [from |-> from, template |-> template, args |-> args, pc |-> "idle",
     langData |-> <<>>, eulaData |-> <<>>, createdFiles |-> <<>>,
     pending |-> <<>>, result |-> NoResult, delivered |-> FALSE]

\* the invocation after its return
Returned(call, res) == [call EXCEPT !.pc = "done", !.result = res, !.pending = <<>>]

\* iteration i of the write loops of an invocation up to its await of
\* prettier.format, or the return when the loops are over
callBeginWrite(call, i, dirs) ==
    LET js == jobs(call.langData, call.eulaData) IN
    IF i > Len(js)
    THEN [call |-> Returned(call, successResult(call.createdFiles)), folders |-> dirs]
    ELSE [call |-> [call EXCEPT !.pc = "format",
                                !.pending = [i |-> i,
                                             filePath |-> filePath(js[i].folder, js[i].name),
                                             jsonString |-> jsonString(js[i].dict)]],
          folders |-> dirs \cup {js[i].folder}]

AppRunning == renderer.window # "quit"

\* app.whenReady().then(createWindow); the user selects a template
Ready ==
    /\ renderer.window = "none"
    /\ \E t \in Templates : renderer' = Page(1, t)
    /\ UNCHANGED <<workbook, fsOut, folders, files, pc, langData, eulaData,
                   createdFiles, pending, result, thrown, writes,
                   history, platform, pageVars, calls>>

\* (variant) the export button is not disabled during the call
SubmitButtonStaysEnabled ==
    /\ renderer.window = "open"
    /\ ~renderer.disabled
    /\ Len(calls) < MaxCalls
    /\ calls' = Append(calls, NewCall(renderer.id, renderer.template,
                          exportTranslation(workbook, OutputDir, renderer.template)))
    /\ UNCHANGED <<workbook, fsOut, folders, files, pc, langData, eulaData,
                   createdFiles, pending, result, thrown, writes,
                   history, platform, pageVars, renderer>>

\* the submit handler of the form up to its await, with an input file and
\* a destination selected; a disabled submit button submits nothing
Submit ==
    /\ renderer.window = "open"
    /\ ~renderer.disabled
    /\ Len(calls) < MaxCalls
    /\ renderer' = [renderer EXCEPT !.disabled = TRUE]
    /\ calls' = Append(calls, NewCall(renderer.id, renderer.template,
                          exportTranslation(workbook, OutputDir, renderer.template)))
    /\ UNCHANGED <<workbook, fsOut, folders, files, pc, langData, eulaData,
                   createdFiles, pending, result, thrown, writes,
                   history, platform, pageVars>>

\* invocation c from its start to the await of prettier.resolveConfig
CallExport(c) ==
    /\ AppRunning
    /\ calls[c].pc = "idle"
    /\ LET call == calls[c]
           wb == call.args[1] IN
       IF ~wb.readable
       THEN calls' = [calls EXCEPT ![c] = Returned(call, catch(ErrRead))] /\ UNCHANGED fsOut
       ELSE IF ~wb.hasSheet
       THEN calls' = [calls EXCEPT ![c] = Returned(call, catch(ErrSheet))] /\ UNCHANGED fsOut
       ELSE IF ~wb.hasRef
       THEN calls' = [calls EXCEPT ![c] = Returned(call, catch(ErrRange))] /\ UNCHANGED fsOut
       ELSE LET d == accumulate(wb.cells)
                read == [call EXCEPT !.langData = d.lang, !.eulaData = d.eula] IN
            IF fsOut = "noparent"
            THEN calls' = [calls EXCEPT ![c] = Returned(read, catch(ErrMkdirParent))]
                 /\ UNCHANGED fsOut
            ELSE /\ fsOut' = "dir"
                 /\ calls' = [calls EXCEPT ![c] = [read EXCEPT !.pc = "resolveConfig"]]
    /\ UNCHANGED <<workbook, folders, files, pc, langData, eulaData,
                   createdFiles, pending, result, thrown, writes,
                   history, platform, pageVars, renderer>>

\* prettier.resolveConfig settles for invocation c; its first iteration starts
CallConfigResolved(c) ==
    /\ AppRunning
    /\ calls[c].pc = "resolveConfig"
    /\ \E cfgOk \in BOOLEAN :
         IF ~cfgOk
         THEN calls' = [calls EXCEPT ![c] = Returned(calls[c], catch(ErrConfig))]
              /\ UNCHANGED folders
         ELSE LET b == callBeginWrite([calls[c] EXCEPT !.createdFiles = <<>>], 1, folders) IN
              calls' = [calls EXCEPT ![c] = b.call] /\ folders' = b.folders
    /\ UNCHANGED <<workbook, fsOut, files, pc, langData, eulaData,
                   createdFiles, pending, result, thrown, writes,
                   history, platform, pageVars, renderer>>

\* prettier.format settles for invocation c; the file is written and the
\* next iteration starts
CallFormatResolved(c) ==
    /\ AppRunning
    /\ calls[c].pc = "format"
    /\ LET call == calls[c]
           formatted == prettierFormat(call.pending.jsonString) IN
       IF ~formatted.ok
       THEN calls' = [calls EXCEPT ![c] = Returned(call, catch(ErrFormat))]
            /\ UNCHANGED <<folders, files, writes>>
       ELSE \E wrOk \in BOOLEAN :
              IF ~wrOk
              THEN calls' = [calls EXCEPT ![c] = Returned(call, catch(ErrWrite))]
                   /\ UNCHANGED <<folders, files, writes>>
              ELSE LET b == callBeginWrite(
                                [call EXCEPT !.createdFiles = Append(@, call.pending.filePath)],
                                call.pending.i + 1, folders) IN
                   /\ files' = (call.pending.filePath :> formatted.text) @@ files
                   /\ writes' = Append(writes, [path |-> call.pending.filePath,
                                                 text |-> formatted.text, call |-> c])
                   /\ calls' = [calls EXCEPT ![c] = b.call]
                   /\ folders' = b.folders
    /\ UNCHANGED <<workbook, fsOut, pc, langData, eulaData,
                   createdFiles, pending, result, thrown,
                   history, platform, pageVars, renderer>>

\* the result of invocation c reaches the page that sent it, which shows it
\* and enables the button again; a page that is gone receives nothing
Settle(c) ==
    /\ AppRunning
    /\ calls[c].pc = "done"
    /\ ~calls[c].delivered
    /\ calls' = [calls EXCEPT ![c].delivered = TRUE]
    /\ renderer' = IF renderer.window = "open" /\ renderer.id = calls[c].from
                   THEN [renderer EXCEPT !.disabled = FALSE]
                   ELSE renderer
    /\ UNCHANGED <<workbook, fsOut, folders, files, pc, langData, eulaData,
                   createdFiles, pending, result, thrown, writes,
                   history, platform, pageVars>>

\* the window is closed: window-all-closed quits the application except on
\* darwin, where the main process and its invocations go on
Close ==
    /\ renderer.window = "open"
    /\ renderer' = [renderer EXCEPT
                       !.window = IF platform = "darwin" THEN "closed" ELSE "quit"]
    /\ UNCHANGED <<workbook, fsOut, folders, files, pc, langData, eulaData,
                   createdFiles, pending, result, thrown, writes,
                   history, platform, pageVars, calls>>

\* activate with no window open: createWindow loads a new page (pages are
\* counted up to the number of calls)
Activate ==
    /\ renderer.window = "closed"
    /\ renderer.id < MaxCalls
    /\ renderer' = Page(renderer.id + 1, "FD")
    /\ UNCHANGED <<workbook, fsOut, folders, files, pc, langData, eulaData,
                   createdFiles, pending, result, thrown, writes,
                   history, platform, pageVars, calls>>

AppWorkbooks == {ReadableWorkbook(ParsedBase),
                 [readable |-> TRUE, hasSheet |-> FALSE, hasRef |-> FALSE, cells |-> EmptyCells]}

InitApp == /\ workbook \in AppWorkbooks
           /\ fsOut = DiskAbsent.out
           /\ folders = DiskAbsent.folders
           /\ files = DiskAbsent.files
           /\ pc = "idle"
           /\ langData = <<>>
           /\ eulaData = <<>>
           /\ createdFiles = <<>>
           /\ pending = <<>>
           /\ result = NoResult
           /\ thrown = <<>>
           /\ writes = <<>>
           /\ history = <<>>
           /\ platform \in {"darwin", "win32"}
           /\ renderer = NoRenderer
           /\ calls = <<>>
           /\ PageIdle

NextApp == \/ Ready
           \/ Submit
           \/ \E c \in 1..Len(calls) : CallExport(c)
           \/ \E c \in 1..Len(calls) : CallConfigResolved(c)
           \/ \E c \in 1..Len(calls) : CallFormatResolved(c)
           \/ \E c \in 1..Len(calls) : Settle(c)
           \/ Close
           \/ Activate

SpecApp == InitApp /\ [][NextApp]_vars

(***************************************************************************)
(* The page: renderer.js with the dialogs of the main process behind it.   *)
(* Each click handler runs up to its await; the answer of the main process *)
(* arrives later and the handler goes on from there, with any other event  *)
(* of the page in between.  The export-translation call is seen from the   *)
(* page: it resolves with a success result or a failure result, or the     *)
(* promise rejects.                                                        *)
(***************************************************************************)
MaxDialogs == 1

mainVars == <<workbook, fsOut, folders, files, pc, langData, eulaData,
              createdFiles, pending, result, thrown, writes,
              history, platform, renderer, calls>>

FilePaths == {Str(<<"a">>), Str(<<"b">>)}
DestPaths == {Str(<<"d">>), Str(<<"e">>)}

\* what dialog.showOpenDialog resolves with
DialogResults(paths) ==
    {[canceled |-> TRUE, filePaths |-> <<>>], [canceled |-> FALSE, filePaths |-> <<>>]}
    \cup {[canceled |-> FALSE, filePaths |-> <<path>>] : path \in paths}

\* the select-file handler after its dialog
selectFile(dialogResult) ==
    IF ~dialogResult.canceled /\ Len(dialogResult.filePaths) > 0
    THEN dialogResult.filePaths[1]
    ELSE Null

\* the select-destination handler after its dialog
selectDestination(dialogResult) ==
    IF ~dialogResult.canceled /\ Len(dialogResult.filePaths) > 0
    THEN dialogResult.filePaths[1]
    ELSE Null

Settled == {"success", "failure", "rejected"}

PageReady == document.readyState = "complete"

\* the window loads index.html again (reload, or the application is started
\* again): the variables of renderer.js and the elements are new, the calls
\* of the old page are answered to nobody, localStorage stays
Reload ==
    /\ PageReady
    /\ selectedFilePath' = Null
    /\ selectedDestPath' = Null
    /\ document' = LoadingDocument
    /\ invokes' = NoInvokes
    /\ alerted' = ""
    /\ UNCHANGED localStorage
    /\ UNCHANGED mainVars

\* the DOMContentLoaded listener
DOMContentLoaded ==
    /\ document.readyState = "loading"
    /\ LET savedDestPath == localStorage IN
       IF Truthy(savedDestPath)
       THEN /\ selectedDestPath' = savedDestPath
            /\ document' = [document EXCEPT !.readyState = "complete",
                                            !.destinationField = savedDestPath]
       ELSE /\ UNCHANGED selectedDestPath
            /\ document' = [document EXCEPT !.readyState = "complete"]
    /\ UNCHANGED <<selectedFilePath, localStorage, invokes, alerted>>
    /\ UNCHANGED mainVars

\* the user picks an option of the template select
SelectTemplate ==
    /\ PageReady
    /\ \E t \in TemplateOptions \ {document.templateSelect} :
         document' = [document EXCEPT !.templateSelect = t]
    /\ UNCHANGED <<selectedFilePath, selectedDestPath, localStorage, invokes, alerted>>
    /\ UNCHANGED mainVars

\* click on selectFileBtn, up to the await of selectFile
SelectFileClick ==
    /\ PageReady
    /\ invokes.selectFile < MaxDialogs
    /\ invokes' = [invokes EXCEPT !.selectFile = @ + 1]
    /\ UNCHANGED <<selectedFilePath, selectedDestPath, localStorage, document, alerted>>
    /\ UNCHANGED mainVars

\* (variant) the answer of selectFile is stored whatever it is
SelectFileReturnUnguarded(chosen) ==
    /\ invokes.selectFile > 0
    /\ invokes' = [invokes EXCEPT !.selectFile = @ - 1, !.answered = chosen]
    /\ selectedFilePath' = chosen
    /\ document' = [document EXCEPT !.inputFileField =
                        IF chosen = Null THEN Str(<<>>) ELSE chosen]
    /\ UNCHANGED <<selectedDestPath, localStorage, alerted>>
    /\ UNCHANGED mainVars

\* the click handler of selectFileBtn after selectFile has answered chosen
SelectFileReturn(chosen) ==
    /\ invokes.selectFile > 0
    /\ invokes' = [invokes EXCEPT !.selectFile = @ - 1, !.answered = chosen]
    /\ IF Truthy(chosen)
       THEN /\ selectedFilePath' = chosen
            /\ document' = [document EXCEPT !.inputFileField = chosen]
       ELSE UNCHANGED <<selectedFilePath, document>>
    /\ UNCHANGED <<selectedDestPath, localStorage, alerted>>
    /\ UNCHANGED mainVars

\* click on selectDestBtn, up to the await of selectDestination
SelectDestClick ==
    /\ PageReady
    /\ invokes.selectDestination < MaxDialogs
    /\ invokes' = [invokes EXCEPT !.selectDestination = @ + 1]
    /\ UNCHANGED <<selectedFilePath, selectedDestPath, localStorage, document, alerted>>
    /\ UNCHANGED mainVars

\* the click handler of selectDestBtn after selectDestination has answered
\* destPath
SelectDestReturn(destPath) ==
    /\ invokes.selectDestination > 0
    /\ invokes' = [invokes EXCEPT !.selectDestination = @ - 1, !.answered = destPath]
    /\ IF Truthy(destPath)
       THEN /\ selectedDestPath' = destPath
            /\ document' = [document EXCEPT !.destinationField = destPath]
            /\ localStorage' = destPath
       ELSE UNCHANGED <<selectedDestPath, document, localStorage>>
    /\ UNCHANGED <<selectedFilePath, alerted>>
    /\ UNCHANGED mainVars

\* (variant) Clear empties the selection and the field only
ClearDestClickKeepsSaved ==
    /\ PageReady
    /\ selectedDestPath' = Null
    /\ document' = [document EXCEPT !.destinationField = Str(<<>>)]
    /\ UNCHANGED <<selectedFilePath, localStorage, invokes, alerted>>
    /\ UNCHANGED mainVars

\* click on clearDestBtn
ClearDestClick ==
    /\ PageReady
    /\ selectedDestPath' = Null
    /\ document' = [document EXCEPT !.destinationField = Str(<<>>)]
    /\ localStorage' = Null
    /\ UNCHANGED <<selectedFilePath, invokes, alerted>>
    /\ UNCHANGED mainVars

\* the submit handler from the validation on: the button is disabled, its
\* text is kept in originalText, and exportTranslation is called
SubmitCall ==
    /\ document' = [document EXCEPT !.exportBtn =
                        [disabled |-> TRUE, textContent |-> ExportingLabel]]
    /\ invokes' = [invokes EXCEPT !.exportTranslation =
                      [state |-> "pending",
                       args |-> <<selectedFilePath, selectedDestPath,
                                  document.templateSelect>>,
                       originalText |-> document.exportBtn.textContent]]
    /\ UNCHANGED alerted

\* (variant) the submit handler does not look at the destination
SubmitFormNoDestCheck ==
    /\ PageReady
    /\ ~document.exportBtn.disabled
    /\ IF ~Truthy(selectedFilePath)
       THEN /\ alerted' = "Please select an input file"
            /\ UNCHANGED <<document, invokes>>
       ELSE SubmitCall
    /\ UNCHANGED <<selectedFilePath, selectedDestPath, localStorage>>
    /\ UNCHANGED mainVars

\* the submit handler of the form up to its await; a disabled submit button
\* submits nothing
SubmitForm ==
    /\ PageReady
    /\ ~document.exportBtn.disabled
    /\ IF ~Truthy(selectedFilePath)
       THEN /\ alerted' = "Please select an input file"
            /\ UNCHANGED <<document, invokes>>
       ELSE IF ~Truthy(selectedDestPath)
       THEN /\ alerted' = "Please select a destination folder"
            /\ UNCHANGED <<document, invokes>>
       ELSE SubmitCall
    /\ UNCHANGED <<selectedFilePath, selectedDestPath, localStorage>>
    /\ UNCHANGED mainVars

\* the export-translation call of the page settles
ExportTranslationSettles ==
    /\ invokes.exportTranslation.state = "pending"
    /\ \E outcome \in Settled :
         invokes' = [invokes EXCEPT !.exportTranslation.state = outcome]
    /\ UNCHANGED <<selectedFilePath, selectedDestPath, localStorage, document, alerted>>
    /\ UNCHANGED mainVars

\* the alert of the submit handler after its await
resultAlert(state) ==
    IF state = "success" THEN "Files created"
    ELSE IF state = "failure" THEN "Export failed"
    ELSE "Export error"

\* (variant) the button is restored at the end of the try block
SubmitFormSettledNoFinally ==
    /\ invokes.exportTranslation.state \in Settled
    /\ LET call == invokes.exportTranslation IN
       /\ alerted' = resultAlert(call.state)
       /\ document' = IF call.state = "rejected" THEN document
                      ELSE [document EXCEPT !.exportBtn =
                               [disabled |-> FALSE, textContent |-> call.originalText]]
       /\ invokes' = [invokes EXCEPT !.exportTranslation = NoInvoke]
    /\ UNCHANGED <<selectedFilePath, selectedDestPath, localStorage>>
    /\ UNCHANGED mainVars

\* the submit handler after its await: the alert of the try or the catch
\* block, then the finally block
SubmitFormSettled ==
    /\ invokes.exportTranslation.state \in Settled
    /\ LET call == invokes.exportTranslation IN
       /\ alerted' = resultAlert(call.state)
       /\ document' = [document EXCEPT !.exportBtn =
                          [disabled |-> FALSE, textContent |-> call.originalText]]
       /\ invokes' = [invokes EXCEPT !.exportTranslation = NoInvoke]
    /\ UNCHANGED <<selectedFilePath, selectedDestPath, localStorage>>
    /\ UNCHANGED mainVars

\* the page is loaded for the first time or after earlier sessions that
\* left a destination in localStorage
InitRenderer ==
    /\ workbook = ReadableWorkbook(ParsedBase)
    /\ fsOut = DiskAbsent.out
    /\ folders = DiskAbsent.folders
    /\ files = DiskAbsent.files
    /\ pc = "idle"
    /\ langData = <<>>
    /\ eulaData = <<>>
    /\ createdFiles = <<>>
    /\ pending = <<>>
    /\ result = NoResult
    /\ thrown = <<>>
    /\ writes = <<>>
    /\ history = <<>>
    /\ platform = "darwin"
    /\ renderer = NoRenderer
    /\ calls = <<>>
    /\ selectedFilePath = Null
    /\ selectedDestPath = Null
    /\ localStorage \in {Null} \cup DestPaths
    /\ document = LoadingDocument
    /\ invokes = NoInvokes
    /\ alerted = ""

NextRenderer ==
    \/ Reload
    \/ DOMContentLoaded
    \/ SelectTemplate
    \/ SelectFileClick
    \/ \E r \in DialogResults(FilePaths) : SelectFileReturn(selectFile(r))
    \/ SelectDestClick
    \/ \E r \in DialogResults(DestPaths) : SelectDestReturn(selectDestination(r))
    \/ ClearDestClick
    \/ SubmitForm
    \/ ExportTranslationSettles
    \/ SubmitFormSettled

SpecRenderer == InitRenderer /\ [][NextRenderer]_vars

\* the event loop runs the rest of the submit handler once the promise it
\* awaits has settled
SpecRendererLive == SpecRenderer /\ WF_vars(SubmitFormSettled)

(***************************************************************************)
(* The handler on a sheet with text around the cells the loops read, and   *)
(* on an output directory that holds other files.                          *)
(***************************************************************************)
\* text that parses to the key s
TextS == KV(<<"s">>, <<>>, <<SP>>, <<"t">>)

\* a header text that starts with two dots
DotsName == <<".", ".", "/", "e", "n">>

\* the columns next to the two column ranges
OutsideCols == {TransFirstCol - 1, TransLastCol + 1, EulaFirstCol - 2,
                EulaFirstCol - 1, EulaLastCol + 1}

\* a column of the translation range that has no header in ParsedBase
SpareCol == TransFirstCol + 4

\* row 0 above both ranges, the header row, and the data rows outside the
\* ranges
FramePositions ==
    ({HeaderRowIndex - 1} \X {TransFirstCol - 1, TransFirstCol, EulaFirstCol})
    \cup ({HeaderRowIndex} \X (OutsideCols \cup {SpareCol}))
    \cup ((FirstDataRow..MaxRow) \X OutsideCols)

\* base with at most n cells of pair text added at those positions
RECURSIVE WithStrays(_, _)
WithStrays(base, n) ==
    IF n = 0 THEN {base}
    ELSE LET fewer == WithStrays(base, n - 1) IN
         fewer \cup {WithCell(d, p, Cell(Undef, Str(TextS))) : d \in fewer,
                                                             p \in FramePositions}

DotsBase == WithCell(ParsedBase, <<HeaderRowIndex, SpareCol>>, Cell(Undef, Str(DotsName)))

FrameWorkbooks == {ReadableWorkbook(c) : c \in WithStrays(ParsedBase, MaxCells)
                                             \cup WithStrays(DotsBase, MaxCells)}

\* the text of the files that are on disk before the call
KeepText == <<"k", "e", "e", "p">>

\* an output directory with a file of an earlier export, two files of other
\* names, and the directory above it with a translation.json of its own
DiskOthers ==
    [out |-> "dir", folders |-> {<<"e", "n">>},
     files |-> [q \in {filePath(<<"e", "n">>, "translation.json"),
                       filePath(<<"e", "n">>, "notes.txt"),
                       filePath(<<>>, "keep.json"),
                       filePath(<<".", ".">>, "translation.json")} |-> KeepText]]

InitFrame == /\ \E w \in FrameWorkbooks : workbook = w
             /\ fsOut = DiskOthers.out
             /\ folders = DiskOthers.folders
             /\ files = DiskOthers.files
             /\ pc = "idle"
             /\ langData = <<>>
             /\ eulaData = <<>>
             /\ createdFiles = <<>>
             /\ pending = <<>>
             /\ result = NoResult
             /\ thrown = <<>>
             /\ writes = <<>>
             /\ AppIdle

SpecFrame == InitFrame /\ [][Next]_vars

(***************************************************************************)
(* Vocabulary of the properties.                                           *)
(***************************************************************************)
Succeeded == pc = "done" /\ result.success

\* the row loop has run
Accumulated == pc # "idle" /\ workbook.readable /\ workbook.hasSheet /\ workbook.hasRef

\* the language name of column c, <<>> when the column has none
HeaderName(c) ==
    LET cell == sheetCell(workbook.cells, 1, c) IN
    IF cell.present /\ Truthy(cellText(cell)) THEN PropertyKey(cellText(cell)) ELSE <<>>

\* the slug rule of the specification
SlugRule(L) ==
    LET low == toLowerCase(L) IN
    IF low = <<"i", "t", "a", "l", "i", "a", "n">> THEN <<"i", "t", "a">>
    ELSE IF Len(low) <= 2 THEN low
    ELSE <<low[1], low[2]>>

Written(path) == \E i \in 1..Len(writes) : writes[i].path = path

DataRowsOf(cells) == {r \in {p[1] : p \in DOMAIN cells} : r >= 2}

\* the pair parsed from the data cell at row r, column c
Entry(r, c) ==
    LET cell == sheetCell(workbook.cells, r, c)
        raw == cellText(cell) IN
    IF cell.present /\ raw.t = "str" /\ raw.s # <<>> THEN match(raw.s) ELSE NoMatch

\* the columns of cols that carry the language name L
ColsOf(cols, L) == {c \in cols : HeaderName(c) = L}

\* the data cells of language L from which a pair is parsed
ParsedCells(cols, L) ==
    {p \in DOMAIN workbook.cells :
        p[1] >= 2 /\ p[2] \in cols /\ HeaderName(p[2]) = L /\ Entry(p[1], p[2]).found}

\* the rows in which a column of language L parses key k
RowsWith(cols, L, k) ==
    {p[1] : p \in {q \in ParsedCells(cols, L) : Entry(q[1], q[2]).key = k}}

\* the keys parsed from the columns of language L
KeysOf(cols, L) == {Entry(p[1], p[2]).key : p \in ParsedCells(cols, L)}

\* the values key k has in the highest-numbered row of language L that parses k
TopValues(cols, L, k) ==
    LET top == SetMax(RowsWith(cols, L, k)) IN
    {Entry(p[1], p[2]).value :
        p \in {q \in ParsedCells(cols, L) : q[1] = top /\ Entry(q[1], q[2]).key = k}}

Quoted(t) == <<Q>> \o t \o <<Q>>

\* the JSON text has a member k whose value is one of vs
FileHolds(text, k, vs) ==
    LET ms == ParseObject(text).members IN
    \E i \in 1..Len(ms) : ms[i].k = Quoted(k) /\ \E v \in vs : ms[i].v = Quoted(v)

Names(cols) == {HeaderName(c) : c \in cols} \ {<<>>}

CategoryCols(name) == IF name = "translation.json" THEN TransCols ELSE EulaCols

LastWriteWins(cols, data) ==
    \A L \in Names(cols) : \A k \in KeysOf(cols, L) :
        /\ HasKey(data, L)
        /\ HasKey(Get(data, L), k)
        /\ Get(Get(data, L), k) \in TopValues(cols, L, k)

C2_LastWriteWins ==
    /\ Accumulated => LastWriteWins(TransCols, langData) /\ LastWriteWins(EulaCols, eulaData)
    /\ LET js == jobs(langData, eulaData) IN
       \A i \in 1..Len(writes) :
          \A k \in KeysOf(CategoryCols(js[i].name), js[i].lang) :
              FileHolds(writes[i].text, k, TopValues(CategoryCols(js[i].name), js[i].lang, k))

C2_Witness ==
    /\ Succeeded
    /\ Entry(2, 1).found /\ Entry(3, 1).found
    /\ Entry(2, 1).key = Entry(3, 1).key
    /\ Entry(2, 1).value # Entry(3, 1).value
    /\ FileHolds(files[<<OutputDir, SlugRule(HeaderName(1)), "translation.json">>],
                 Entry(3, 1).key, {Entry(3, 1).value})

(***************************************************************************)
(* C3: a data cell under a language header whose text is a quoted key, any *)
(* whitespace (or none), a colon, any whitespace (or none) and a quoted    *)
(* value puts exactly that key and that value, untrimmed and not           *)
(* unescaped, into the dictionary of the column's language and category    *)
(* (where no later cell of the language writes the key again).             *)
(***************************************************************************)
ClaimKeys == {<<"a">>, <<"b">>, <<"2">>}
ClaimValues == {<<"x">>, <<"y">>, <<"z">>, <<SP, "x", BS, "n", SP>>, <<"x", Q, "y">>}
ClaimSpaces == {<<>>, <<SP>>, <<NL, SP>>}

\* every text of the form: quoted key, whitespace, colon, whitespace, quoted value
ClaimForms ==
    {[text |-> <<Q>> \o k \o <<Q>> \o a \o <<":">> \o b \o <<Q>> \o v \o <<Q>>,
      key |-> k, value |-> v] :
        k \in ClaimKeys, v \in ClaimValues, a \in ClaimSpaces, b \in ClaimSpaces}

\* a later cell of language L, in scan order, parses key k
WrittenLater(cols, L, r, c, k) ==
    \E p \in ParsedCells(cols, L) :
        /\ p[1] > r \/ (p[1] = r /\ p[2] > c)
        /\ Entry(p[1], p[2]).key = k

KeyValueStored(cols, data) ==
    \A p \in DOMAIN workbook.cells :
        LET raw == cellText(workbook.cells[p])
            L == HeaderName(p[2]) IN
        (p[1] >= 2 /\ p[2] \in cols /\ L # <<>> /\ raw.t = "str") =>
            \A f \in ClaimForms :
                (raw.s = f.text /\ ~WrittenLater(cols, L, p[1], p[2], f.key)) =>
                    /\ HasKey(data, L)
                    /\ HasKey(Get(data, L), f.key)
                    /\ Get(Get(data, L), f.key) = f.value

C4_FolderSlug ==
    LET js == jobs(langData, eulaData) IN
    /\ \A i \in 1..Len(writes) :
          writes[i].path = <<OutputDir, SlugRule(js[i].lang), js[i].name>>
    /\ pc = "format" =>
          /\ pending.filePath = <<OutputDir, SlugRule(js[pending.i].lang), js[pending.i].name>>
          /\ SlugRule(js[pending.i].lang) \in folders

C4_Witness ==
    LET js == jobs(langData, eulaData) IN
    \E i \in 1..Len(writes), j \in 1..Len(writes) :
        /\ js[i].lang = ItalianUpper
        /\ js[i].name = "eula.json"
        /\ writes[i].path[2] = <<"i", "t", "a">>
        /\ js[j].lang = Slovenian
        /\ js[j].name = "translation.json"
        /\ writes[j].path[2] = <<"s", "l">>

(***************************************************************************)
(* C5: when the workbook has no sheet of the designated name, the call     *)
(* returns a failure result, writes no file and leaves the output          *)
(* directory as it was: not created, no folder and no file changed.        *)
(***************************************************************************)
C5_MissingSheetNoSideEffects ==
    [][(pc = "idle" /\ workbook.readable /\ ~workbook.hasSheet) =>
          /\ pc' = "done"
          /\ ~result'.success
          /\ result'.message = "Sheet \"json_tranlsation\" not found"
          /\ writes' = <<>>
          /\ fsOut' = fsOut
          /\ folders' = folders
          /\ files' = files]_vars

C5_Witness ==
    /\ pc = "done"
    /\ workbook.readable /\ ~workbook.hasSheet
    /\ ~result.success
    /\ fsOut = "absent"

(***************************************************************************)
(* C6: the handler never raises past its boundary: whatever is thrown      *)
(* while it runs ends the call with exactly one failure result that        *)
(* carries the message of what was thrown.                                 *)
(***************************************************************************)
C6_FailureResult ==
    /\ pc \in {"idle", "resolveConfig", "format", "done"}
    /\ thrown # <<>> =>
          /\ pc = "done"
          /\ Len(thrown) = 1
          /\ result = [success |-> FALSE, message |-> thrown[1]]
    /\ (pc = "done" /\ thrown = <<>>) => result.success

C6_Witness ==
    /\ pc = "done"
    /\ thrown = <<ErrFormat>>
    /\ Len(writes) >= 1
    /\ result = [success |-> FALSE, message |-> ErrFormat]

(***************************************************************************)
(* C7: a success result lists exactly the paths written during the call,   *)
(* in order, and filesCreated is the number of writes.                     *)
(***************************************************************************)
C7_ManifestMatchesWrites ==
    Succeeded =>
        /\ Len(result.files) = Len(writes)
        /\ \A i \in 1..Len(writes) : result.files[i] = writes[i].path
        /\ result.filesCreated = Len(writes)

C7_Witness ==
    /\ Succeeded
    /\ result.filesCreated = 3
    /\ \E i \in 1..Len(writes), j \in 1..Len(writes) :
          i # j /\ writes[i].path = writes[j].path

(***************************************************************************)
(* C8: every language name of the header row has exactly one dictionary in *)
(* each category it appears in, and on a successful export a language      *)
(* whose dictionary is empty still has its file written, as an empty       *)
(* object.                                                                 *)
(***************************************************************************)
OneDictionaryEach(cols, data) ==
    /\ \A L \in Names(cols) : Cardinality({i \in 1..Len(data) : data[i].k = L}) = 1
    /\ Len(data) = Cardinality(Names(cols))

EmptyWritten(cols, data, name) ==
    \A L \in Names(cols) : Get(data, L) = <<>> =>
        \E i \in 1..Len(writes) :
            writes[i] = [path |-> <<OutputDir, SlugRule(L), name>>, text |-> <<"{", "}", NL>>]

C8_OneDictionaryPerLanguage ==
    /\ Accumulated => OneDictionaryEach(TransCols, langData) /\ OneDictionaryEach(EulaCols, eulaData)
    /\ Succeeded => /\ EmptyWritten(TransCols, langData, "translation.json")
                    /\ EmptyWritten(EulaCols, eulaData, "eula.json")

C8_Witness ==
    /\ Succeeded
    /\ HeaderName(1) = English
    /\ sheetCell(workbook.cells, 2, 1).present
    /\ ~Entry(2, 1).found
    /\ Get(langData, English) = <<>>
    /\ files[<<OutputDir, <<"e", "n">>, "translation.json">>] = <<"{", "}", NL>>

(***************************************************************************)
(* C9: the members of every written JSON object (and of the dictionary it  *)
(* is written from) are in first-seen key order: the order in which the    *)
(* keys are first met scanning the data rows top to bottom, whatever the   *)
(* keys look like.                                                         *)
(***************************************************************************)
\* the keys of language L in the order they are first parsed, from cell (r, c) on
RECURSIVE FirstSeen(_, _, _, _, _)
FirstSeen(cols, L, r, c, acc) ==
    IF r > SetMax(DataRowsOf(workbook.cells)) THEN acc
    ELSE IF c > 21 THEN FirstSeen(cols, L, r + 1, 1, acc)
    ELSE IF /\ c \in ColsOf(cols, L)
            /\ Entry(r, c).found
            /\ \A i \in 1..Len(acc) : acc[i] # Entry(r, c).key
         THEN FirstSeen(cols, L, r, c + 1, Append(acc, Entry(r, c).key))
         ELSE FirstSeen(cols, L, r, c + 1, acc)

KeysInOrder(dict) == [i \in 1..Len(dict) |-> dict[i].k]

C9_FirstSeenOrder ==
    \A i \in 1..Len(writes) :
        LET job == jobs(langData, eulaData)[i]
            order == FirstSeen(CategoryCols(job.name), job.lang, 2, 1, <<>>) IN
        /\ KeysInOrder(job.dict) = order
        /\ KeysInOrder(ParseObject(writes[i].text).members)
              = [n \in 1..Len(order) |-> Quoted(order[n])]

(***************************************************************************)
(* C10: within one run every output path is distinct, also when distinct   *)
(* language names share their first two letters (the statement as given),  *)
(* and as amended: two writes of one run have the same path only when they *)
(* are of the same category and their language names derive the same       *)
(* folder.                                                                 *)
(***************************************************************************)
C10_PathsDistinct ==
    \A i \in 1..Len(writes), j \in 1..Len(writes) :
        i # j => writes[i].path # writes[j].path

C10_PathsDistinctUnlessSameFolder ==
    LET js == jobs(langData, eulaData) IN
    \A i \in 1..Len(writes), j \in 1..Len(writes) :
        (i # j /\ writes[i].path = writes[j].path) =>
            /\ js[i].name = js[j].name
            /\ js[i].lang # js[j].lang
            /\ SlugRule(js[i].lang) = SlugRule(js[j].lang)

C10_Witness ==
    /\ Succeeded
    /\ Len(writes) >= 3
    /\ Written(<<OutputDir, <<"e", "n">>, "translation.json">>)
    /\ Written(<<OutputDir, <<"e", "n">>, "eula.json">>)
    /\ \A i \in 1..Len(writes), j \in 1..Len(writes) : i # j => writes[i].path # writes[j].path

(***************************************************************************)
(* C11: before any file is written the output directory exists, and it is  *)
(* created together with its missing ancestors: once the rows are read,    *)
(* the directory is there and no missing parent has failed the export.     *)
(***************************************************************************)
C11_OutputDirEnsured ==
    /\ writes # <<>> => fsOut = "dir"
    /\ Accumulated => /\ fsOut = "dir"
                      /\ \A i \in 1..Len(thrown) : thrown[i] # ErrMkdirParent

(***************************************************************************)
(* C12: when the text of a cell holds more than one quoted pair, the       *)
(* parser returns the first pair's key, and its value ends at the quote    *)
(* that closes the first pair's value (the statement as given); as         *)
(* amended: the value runs from the first pair's value up to the last      *)
(* quote of the text, the later pairs included.                            *)
(***************************************************************************)
\* the text of cell B3
TextB3 == cellText(sheetCell(workbook.cells, FirstDataRow, TransFirstCol)).s

\* the text of f from the first character of its first value to the
\* character before its last quote
UpToLastQuote(f) == SubSeq(f.text, Len(f.key) + 6, Len(f.text) - 1)

C12_FirstPairOnly ==
    Accumulated =>
        \A f \in AllPairTexts : (f.n >= 2 /\ TextB3 = f.text) =>
            /\ match(TextB3) = [found |-> TRUE, key |-> f.key, value |-> f.value]
            /\ langData = <<[k |-> English, v |-> <<[k |-> f.key, v |-> f.value]>>]>>

C12_FirstKeyGreedyValue ==
    Accumulated =>
        \A f \in AllPairTexts : (f.n >= 2 /\ TextB3 = f.text) =>
            /\ match(TextB3) = [found |-> TRUE, key |-> f.key, value |-> UpToLastQuote(f)]
            /\ langData = <<[k |-> English, v |-> <<[k |-> f.key, v |-> UpToLastQuote(f)]>>]>>

C12_Witness ==
    /\ Accumulated
    /\ TextB3 = KV(<<"a">>, <<>>, <<SP>>, <<"x">>) \o <<",", SP>> \o KV(<<"b">>, <<>>, <<SP>>, <<"y">>)
    /\ Get(Get(langData, English), <<"a">>)
          = <<"x", Q, ",", SP, Q, "b", Q, ":", SP, Q, "y">>

(***************************************************************************)
(* C13: every written file is a valid JSON object with one member per      *)
(* entry of its dictionary, each value as stored (escaped only where it    *)
(* holds a quote or a line break), and a stored value that holds a quote   *)
(* or a line break never makes prettier.format fail.                       *)
(***************************************************************************)
HasQuoteOrBreak(v) == \E i \in 1..Len(v) : v[i] \in {Q, NL}

C13_ValuesEmittedAsValidJson ==
    /\ \A i \in 1..Len(thrown) : thrown[i] # ErrFormat
    /\ \A i \in 1..Len(writes) :
          LET job == jobs(langData, eulaData)[i]
              p == ParseObject(writes[i].text) IN
          /\ p.ok
          /\ Len(p.members) = Len(job.dict)
          /\ \A n \in 1..Len(job.dict) :
                /\ p.members[n].k = Quoted(job.dict[n].k)
                /\ ~HasQuoteOrBreak(job.dict[n].v) => p.members[n].v = Quoted(job.dict[n].v)

(***************************************************************************)
(* C14: a data cell that is absent, empty, not textual, or text with no    *)
(* quoted pair is skipped without error: the dictionaries are those of the *)
(* sheet without such cells, reading the sheet never fails, and the files  *)
(* of a successful export are those of the sheet without such cells.       *)
(***************************************************************************)
\* the cells without the data cells that carry no pair
Strip(cells) == [p \in {q \in DOMAIN cells : q[1] < FirstDataRow \/ cells[q] \notin SkipCells}
                    |-> cells[p]]

C14_SkippedCellsNoEffect ==
    /\ pc # "idle" => Accumulated
    /\ Accumulated =>
          /\ [lang |-> langData, eula |-> eulaData] = accumulate(Strip(workbook.cells))
          /\ \A i \in 1..Len(thrown) : thrown[i] \in {ErrConfig, ErrWrite}
    /\ Succeeded =>
          LET js == jobs(accumulate(Strip(workbook.cells)).lang,
                         accumulate(Strip(workbook.cells)).eula) IN
          /\ Len(writes) = Len(js)
          /\ \A i \in 1..Len(js) :
                writes[i] = [path |-> filePath(js[i].folder, js[i].name),
                             text |-> prettierFormat(jsonString(js[i].dict)).text]

C14_Witness ==
    /\ Succeeded
    /\ sheetCell(workbook.cells, 3, 1) = Cell(Undef, Str(TextNote))
    /\ sheetCell(workbook.cells, 3, 13) = Cell(Undef, Num(7))
    /\ langData = <<[k |-> English, v |-> <<[k |-> <<"a">>, v |-> <<"y">>]>>],
                    [k |-> ItalianName, v |-> <<>>]>>
    /\ Len(writes) = 3

(***************************************************************************)
(* C15: a header cell whose content is not text (a number with no display  *)
(* string) defines no language: its column gets no dictionary and no file  *)
(* is written for it.                                                      *)
(***************************************************************************)
NonTextHeader(c) ==
    LET cell == sheetCell(workbook.cells, HeaderRowIndex, c) IN
    cell.present /\ cellText(cell).t # "str"

C15_NonTextHeaderNoLanguage ==
    Accumulated =>
        \A c \in TransCols \cup EulaCols : NonTextHeader(c) =>
            LET name == PropertyKey(cellText(sheetCell(workbook.cells, HeaderRowIndex, c))) IN
            /\ ~HasKey(IF c \in TransCols THEN langData ELSE eulaData, name)
            /\ ~Written(<<OutputDir, SlugRule(name),
                          IF c \in TransCols THEN "translation.json" ELSE "eula.json">>)

(***************************************************************************)
(* C16: when two columns of one range carry the same header text, their    *)
(* cells go into one dictionary: a key holds the value of the last cell,   *)
(* in scan order (row by row, and in a row by ascending column), that      *)
(* parses it, the dictionary has no other key, and a successful export     *)
(* writes exactly one file for that language and category, with these      *)
(* values.                                                                 *)
(***************************************************************************)
\* the names carried by two or more columns of cols
Repeated(cols) == {L \in Names(cols) : Cardinality(ColsOf(cols, L)) >= 2}

\* the last cell of language L, in scan order, that parses key k
LastCell(cols, L, k) ==
    LET with == {p \in ParsedCells(cols, L) : Entry(p[1], p[2]).key = k} IN
    CHOOSE p \in with :
        \A q \in with : q[1] < p[1] \/ (q[1] = p[1] /\ q[2] <= p[2])

Merged(cols, data, name) ==
    \A L \in Repeated(cols) :
        /\ Cardinality({i \in 1..Len(data) : data[i].k = L}) = 1
        /\ {Get(data, L)[i].k : i \in 1..Len(Get(data, L))} = KeysOf(cols, L)
        /\ \A k \in KeysOf(cols, L) :
              LET last == LastCell(cols, L, k) IN
              Get(Get(data, L), k) = Entry(last[1], last[2]).value
        /\ Succeeded =>
              LET js == jobs(langData, eulaData)
                  mine == {i \in 1..Len(writes) : js[i].lang = L /\ js[i].name = name} IN
              /\ Cardinality(mine) = 1
              /\ \A i \in mine : \A k \in KeysOf(cols, L) :
                    LET last == LastCell(cols, L, k) IN
                    FileHolds(writes[i].text, k, {Entry(last[1], last[2]).value})

C16_DuplicateHeaderMerges ==
    Accumulated => /\ Merged(TransCols, langData, "translation.json")
                   /\ Merged(EulaCols, eulaData, "eula.json")

C16_Witness ==
    /\ Succeeded
    /\ HeaderName(1) = English /\ HeaderName(9) = English
    /\ Entry(2, 1).found /\ Entry(2, 9).found
    /\ Entry(2, 1).key = Entry(2, 9).key
    /\ Entry(2, 1).value # Entry(2, 9).value
    /\ Len(langData) = 1
    /\ FileHolds(files[<<OutputDir, <<"e", "n">>, "translation.json">>],
                 Entry(2, 9).key, {Entry(2, 9).value})

(***************************************************************************)
(* C17: a failure while the files are emitted ends the call with a failure *)
(* result and rolls nothing back: the step that fails leaves the disk as   *)
(* it is, exactly the files of the earlier iterations have been written,   *)
(* each still holds the text last written to it, and nothing is written    *)
(* once the call has returned.                                             *)
(***************************************************************************)
\* the text of the last write to the path of write i
LastWritten(i) ==
    writes[CHOOSE j \in i..Len(writes) :
               /\ writes[j].path = writes[i].path
               /\ \A n \in (j + 1)..Len(writes) : writes[n].path # writes[i].path].text

C17_AbortKeepsWrittenFiles ==
    /\ [](\A i \in 1..Len(writes) :
             /\ writes[i].path \in DOMAIN files
             /\ files[writes[i].path] = LastWritten(i))
    /\ [][(pc = "format" /\ thrown' # thrown) =>
             /\ pc' = "done"
             /\ result' = [success |-> FALSE, message |-> thrown'[Len(thrown')]]
             /\ Len(writes) = pending.i - 1
             /\ writes' = writes
             /\ files' = files
             /\ folders' = folders]_vars
    /\ [][pc = "done" => (files' = files /\ writes' = writes)]_vars

C17_Witness ==
    /\ pc = "done"
    /\ ~result.success
    /\ thrown = <<ErrWrite>>
    /\ Len(jobs(langData, eulaData)) = 3
    /\ Len(writes) = 1
    /\ files = (<<OutputDir, <<"e", "n">>, "translation.json">>
                    :> <<"{", NL, SP, SP, Q, "a", Q, ":", SP, Q, "y", Q, NL, "}", NL>>)

(***************************************************************************)
(* C18: idempotence.  When the export is run twice with the same input     *)
(* file and the same output directory, empty before the first run, and     *)
(* both runs succeed, the second run returns the same list of paths,       *)
(* writes the same bytes to the same paths, and leaves the same files with *)
(* the same content on disk as the first.                                  *)
(***************************************************************************)
C18_Idempotent ==
    (history # <<>> /\ history[1].result.success /\ Succeeded) =>
        /\ result = history[1].result
        /\ writes = history[1].writes
        /\ files = history[1].files

C18_Witness ==
    /\ history # <<>>
    /\ history[1].result.success
    /\ Succeeded
    /\ Len(writes) = 3
    /\ <<OutputDir, <<"e", "n">>, "translation.json">> \in DOMAIN files
    /\ files[<<OutputDir, <<"e", "n">>, "translation.json">>]
          = <<"{", NL, SP, SP, Q, "a", Q, ":", SP, Q, "y", Q, NL, "}", NL>>
    /\ files = history[1].files

(***************************************************************************)
(* C19: exports do not overlap.  As given: no two invocations of the       *)
(* handler are in progress (started and not returned) at the same time,    *)
(* whatever the submits and requests.  As amended: the calls of one loaded *)
(* page do not overlap, because its export button stays disabled from the  *)
(* submit until the result has been handled; calls of different pages can  *)
(* be in progress together.                                                *)
(***************************************************************************)
InProgress(c) == calls[c].pc \in {"resolveConfig", "format"}

\* sent and not yet handled by the page that sent it
Unsettled(c) == ~calls[c].delivered

C19_ExportsDoNotOverlap ==
    \A c \in 1..Len(calls), d \in 1..Len(calls) :
        (InProgress(c) /\ InProgress(d)) => c = d

C19_OneExportPerPage ==
    /\ \A c \in 1..Len(calls), d \in 1..Len(calls) :
          (Unsettled(c) /\ Unsettled(d) /\ calls[c].from = calls[d].from) => c = d
    /\ renderer.window = "open" =>
          (renderer.disabled <=>
              \E c \in 1..Len(calls) : Unsettled(c) /\ calls[c].from = renderer.id)

C19_Witness ==
    /\ Len(calls) = 2
    /\ calls[1].from # calls[2].from
    /\ InProgress(1) /\ InProgress(2)
    /\ \E i \in 1..Len(writes), j \in 1..Len(writes), k \in 1..Len(writes) :
          /\ i < j /\ j < k
          /\ writes[i].call = 1 /\ writes[j].call = 2 /\ writes[k].call = 1

(***************************************************************************)
(* C20: the request is routed by template.  A call sent with template FD   *)
(* runs the spreadsheet export; one sent with ACE or AGPD returns the      *)
(* failure result "<template> template not yet implemented" and writes no  *)
(* file; one sent with any other template returns the failure result       *)
(* "Unknown template: <template>" and writes no file.                      *)
(***************************************************************************)
RoutedResult(t) ==
    IF t = "ACE" THEN [success |-> FALSE, message |-> "ACE template not yet implemented"]
    ELSE IF t = "AGPD" THEN [success |-> FALSE, message |-> "AGPD template not yet implemented"]
    ELSE [success |-> FALSE, message |-> "Unknown template: XX"]

C20_RoutedByTemplate ==
    \A c \in 1..Len(calls) :
        calls[c].template # "FD" =>
            /\ calls[c].pc \in {"idle", "done"}
            /\ calls[c].pc = "done" => calls[c].result = RoutedResult(calls[c].template)
            /\ \A i \in 1..Len(writes) : writes[i].call # c

\* the export button as the user sees it
ButtonRestored == /\ ~document.exportBtn.disabled
                  /\ document.exportBtn.textContent = ExportLabel

\* C21: a disabled export button always has an export call behind it, an
\* enabled one always shows its original text, and once that call has
\* settled (success result, failure result or rejection) the button is
\* eventually enabled again with its original text
C21_NoStuckLoading ==
    /\ [](document.exportBtn.disabled => invokes.exportTranslation.state # "none")
    /\ [](~document.exportBtn.disabled => document.exportBtn.textContent = ExportLabel)
    /\ \A outcome \in Settled :
         (invokes.exportTranslation.state = outcome) ~> ButtonRestored

\* a call that was rejected has been answered and the button is back
C21_Witness == /\ alerted = "Export error"
               /\ invokes.exportTranslation = NoInvoke
               /\ ButtonRestored

BothSelected == Truthy(selectedFilePath) /\ Truthy(selectedDestPath)

\* C22: an export call is sent only in a step that starts with an input file
\* and a destination selected, and with those two as arguments; a submit
\* with either missing sends no call and leaves the export button, the
\* fields, the selections and localStorage as they were
C22_SubmitValidates ==
    /\ [][(/\ invokes'.exportTranslation.state = "pending"
           /\ invokes.exportTranslation.state # "pending")
          => /\ BothSelected
             /\ invokes'.exportTranslation.args[1] = selectedFilePath
             /\ invokes'.exportTranslation.args[2] = selectedDestPath]_vars
    /\ [][(SubmitForm /\ ~BothSelected)
          => UNCHANGED <<invokes, document, selectedFilePath, selectedDestPath,
                         localStorage>>]_vars

\* a submit with a file and no destination has been refused
C22_Witness == /\ alerted = "Please select a destination folder"
               /\ Truthy(selectedFilePath)
               /\ ~Truthy(selectedDestPath)
               /\ invokes.exportTranslation = NoInvoke
               /\ ~document.exportBtn.disabled

\* C23: once DOMContentLoaded has run, the selected destination is the value
\* stored under savedDestinationPath (null for both after Clear) and the
\* destination field shows it; a load of the page leaves the stored value
\* alone, which is the destination selected before the load, and
\* DOMContentLoaded selects it again
C23_DestinationPersisted ==
    /\ [](PageReady => /\ selectedDestPath = localStorage
                    /\ document.destinationField =
                         IF selectedDestPath = Null THEN Str(<<>>) ELSE selectedDestPath)
    /\ [][ClearDestClick => selectedDestPath' = Null /\ localStorage' = Null]_vars
    /\ [][Reload => localStorage' = selectedDestPath]_vars
    /\ [][DOMContentLoaded => /\ localStorage' = localStorage
                              /\ selectedDestPath' = localStorage]_vars

\* a destination is selected and stored, with no dialog open
C23_Witness == /\ PageReady
               /\ selectedDestPath = Str(<<"e">>)
               /\ localStorage = Str(<<"e">>)
               /\ document.destinationField = Str(<<"e">>)
               /\ invokes.selectDestination = 0

\* the keys of the dictionary of language L in data
DictKeys(data, L) == {Get(data, L)[j].k : j \in 1..Len(Get(data, L))}

\* the keys of all dictionaries of data
AllKeys(data) == UNION {DictKeys(data, data[i].k) : i \in 1..Len(data)}

\* C24: after the row loop the keys of a translation dictionary are the keys
\* parsed from rows 2 and below of the columns 1..9 under its language name,
\* the keys of a license dictionary those of the columns 13..21; pair text
\* in row 0, in the header row or in columns 0, 10..12 and 22 adds no key
C24_OnlyDataRangeContributes ==
    Accumulated =>
       /\ \A i \in 1..Len(langData) :
             DictKeys(langData, langData[i].k) = KeysOf(TransCols, langData[i].k)
       /\ \A i \in 1..Len(eulaData) :
             DictKeys(eulaData, eulaData[i].k) = KeysOf(EulaCols, eulaData[i].k)
       /\ <<"s">> \notin AllKeys(langData) \cup AllKeys(eulaData)
       /\ <<"b">> \notin AllKeys(langData)
       /\ <<"a">> \notin AllKeys(eulaData)

\* pair text in the header row and in column 12 of a data row, exported
C24_Witness ==
    /\ Succeeded
    /\ sheetCell(workbook.cells, HeaderRowIndex, SpareCol) = Cell(Undef, Str(TextS))
    /\ sheetCell(workbook.cells, FirstDataRow, EulaFirstCol - 1) = Cell(Undef, Str(TextS))
    /\ AllKeys(langData) = {<<"a">>}
    /\ AllKeys(eulaData) = {<<"b">>}

\* C25: the filesCreated of a success result is the number of distinct
\* language names of the columns 1..9 of the header row plus the number of
\* distinct language names of its columns 13..21
C25_FilesCreatedCountsNames ==
    Succeeded =>
       result.filesCreated = Cardinality(Names(TransCols)) + Cardinality(Names(EulaCols))

\* two translation languages of one slug: two files counted, one path
C25_Witness ==
    /\ Succeeded
    /\ Names(TransCols) = {Slovak, Slovenian}
    /\ Names(EulaCols) = {}
    /\ result.filesCreated = 2
    /\ Cardinality({result.files[i] : i \in 1..Len(result.files)}) = 1
    /\ Cardinality(DOMAIN files) = 1

\* path.join(outputDir, folder) is a directory directly under outputDir
ChildFolder(folder) ==
    /\ folder \notin {<<>>, <<".">>, <<".", ".">>}
    /\ \A i \in 1..Len(folder) : folder[i] \notin {"/", BS}

\* the files a call may create or overwrite
ExportFile(path) ==
    /\ path[1] = OutputDir
    /\ ChildFolder(path[2])
    /\ path[3] \in {"translation.json", "eula.json"}

\* C26: no step changes the input workbook; no step removes a file; a file
\* whose text changes, and a file that is new, is a translation.json or an
\* eula.json in a folder directly under the output directory
C26_OnlyExportFilesTouched ==
    /\ [][workbook' = workbook]_vars
    /\ [][\A path \in DOMAIN files :
             /\ path \in DOMAIN files'
             /\ (files'[path] # files[path] => ExportFile(path))]_vars
    /\ [][\A path \in DOMAIN files' \ DOMAIN files : ExportFile(path)]_vars

\* what the user sees and what the page keeps of the two selections
Selections == <<selectedFilePath, selectedDestPath, document.inputFileField,
                document.destinationField, localStorage>>

\* C27: both dialog handlers answer a cancelled dialog with null, and the
\* step of a click handler that receives null leaves the selected file, the
\* selected destination, both fields and savedDestinationPath as they were
C27_CancelKeepsState ==
    /\ [](\A r \in DialogResults(FilePaths \cup DestPaths) :
             r.canceled => selectFile(r) = Null /\ selectDestination(r) = Null)
    /\ [][(SelectFileReturn(Null) \/ SelectDestReturn(Null))
          => UNCHANGED Selections]_vars

\* a dialog was cancelled with a file and a destination selected
C27_Witness == /\ invokes.answered = Null
               /\ selectedFilePath = Str(<<"a">>)
               /\ document.inputFileField = Str(<<"a">>)
               /\ selectedDestPath = Str(<<"d">>)
               /\ document.destinationField = Str(<<"d">>)
               /\ localStorage = Str(<<"d">>)

====
